---- MODULE Spec2Model ----
(***************************************************************************)
(* Receipt ingestion service: POST /receipt (validation middleware,        *)
(* enrichment decision, enrichment client with degraded fallback, field    *)
(* reconciliation, insert keyed by receipt_id), the error handler and      *)
(* GET /receipt/:receipt_id.                                               *)
(*                                                                         *)
(* JavaScript values are tagged records; every JavaScript string is a      *)
(* sequence of one-character strings so that trim, startsWith, toLowerCase *)
(* and the regular expressions of standardizeBrand act on characters.      *)
(***************************************************************************)
EXTENDS Integers, Sequences, FiniteSets, TLC

VARIABLES reqs, store, workload, lookup, call

vars == <<reqs, store, workload, lookup, call>>

----------------------------------------------------------------------------
(* JavaScript values *)

UNDEF == [t |-> "undefined"]
NULL == [t |-> "null"]
Str(s) == [t |-> "string", s |-> s]
Arr(a) == [t |-> "array", a |-> a]
Num(n) == [t |-> "number", n |-> n]

IsStr(v) == v.t = "string"
IsArr(v) == v.t = "array"

\* ToBoolean: undefined, null, "" and 0 are falsy; arrays are always truthy
Truthy(v) ==
  CASE v.t = "string" -> v.s # <<>>
    [] v.t = "array" -> TRUE
    [] v.t = "number" -> v.n # 0
    [] OTHER -> FALSE

\* a || b
JsOr(a, b) == IF Truthy(a) THEN a ELSE b

----------------------------------------------------------------------------
(* String literals *)

S_unknown == <<"u", "n", "k", "n", "o", "w", "n">>
S_high == <<"h", "i", "g", "h">>
S_medium == <<"m", "e", "d", "i", "u", "m">>
S_low == <<"l", "o", "w">>
S_certain == <<"c", "e", "r", "t", "a", "i", "n">>
S_R1 == <<"R", "1">>
S_R2 == <<"R", "2">>
S_iPhone == <<"i", "P", "h", "o", "n", "e", " ", "1", "5", " ", "P", "r", "o">>
S_Apple == <<"A", "p", "p", "l", "e">>
S_AppleComputer == <<"A", "p", "p", "l", "e", " ", "C", "o", "m", "p", "u", "t", "e", "r">>
S_amazon_com == <<"a", "m", "a", "z", "o", "n", ".", "c", "o", "m">>
S_Electronics == <<"E", "l", "e", "c", "t", "r", "o", "n", "i", "c", "s">>
S_Phones == <<"P", "h", "o", "n", "e", "s">>
S_Books == <<"B", "o", "o", "k", "s">>
S_blank == <<" ", " ">>
S_json_empty == <<"[", "]">>
S_json_AB == <<"[", "\"", "A", "\"", ",", "\"", "B", "\"", "]">>
S_json_bad == <<"[", "\"", "A", "\"", ",", "\"", "B", "\"">>
S_A == <<"A">>
S_B == <<"B">>
S_upc == <<"0", "1", "2", "3", "4", "5", "6", "7", "8", "9", "0", "5">>
S_13inch == <<"1", "3", "-", "i", "n", "c", "h">>
S_com == <<".", "c", "o", "m">>
S_inc == <<"i", "n", "c">>
S_llc == <<"l", "l", "c">>
S_corp == <<"c", "o", "r", "p">>
S_corporation == <<"c", "o", "r", "p", "o", "r", "a", "t", "i", "o", "n">>
S_zero == <<"0">>
S_99_99 == <<"9", "9", ".", "9", "9">>
S_12abc == <<"1", "2", "a", "b", "c">>
S_not_a_number == <<"n", "o", "t", "-", "a", "-", "n", "u", "m", "b", "e", "r">>
S_url == <<"h", "t", "t", "p", "s", ":", "/", "/", "a", ".", "c", "o", "/", "i", ".", "j", "p", "g">>
S_not_a_url == <<"n", "o", "t", "-", "a", "-", "u", "r", "l">>
S_http == <<"h", "t", "t", "p">>
S_https == <<"h", "t", "t", "p", "s">>
S_datetime == <<"2", "0", "2", "4", "-", "0", "1", "-", "1", "5", "T", "1", "0", ":", "3", "0", ":", "0", "0", "Z">>
S_date_only == <<"2", "0", "2", "4", "-", "0", "1", "-", "1", "5">>
S_yesterday == <<"y", "e", "s", "t", "e", "r", "d", "a", "y">>
S_amazon == <<"a", "m", "a", "z", "o", "n">>
S_microsoft == <<"m", "i", "c", "r", "o", "s", "o", "f", "t">>
S_acme == <<"a", "c", "m", "e">>
S_walmart == <<"w", "a", "l", "m", "a", "r", "t">>
S_wal_mart == <<"w", "a", "l", "-", "m", "a", "r", "t">>
S_target == <<"t", "a", "r", "g", "e", "t">>
S_costco == <<"c", "o", "s", "t", "c", "o">>
S_marketplace == <<"m", "a", "r", "k", "e", "t", "p", "l", "a", "c", "e">>
S_fulfillment_center == <<"f", "u", "l", "f", "i", "l", "l", "m", "e", "n", "t", " ", "c", "e", "n", "t", "e", "r">>
S_store_1234 == <<"s", "t", "o", "r", "e", " ", "#", "1", "2", "3", "4">>
S_Walmart == <<"W", "a", "l", "m", "a", "r", "t">>
S_Target == <<"T", "a", "r", "g", "e", "t">>
S_Amazon == <<"A", "m", "a", "z", "o", "n">>
S_json_AB_padded == <<" ", "[", "\"", "A", "\"", ",", "\"", "B", "\"", "]">>

\* F(x) with x passed by value: x is evaluated once, before the call
Call(F(_), x) == CHOOSE y \in { F(v) : v \in {x} } : TRUE

----------------------------------------------------------------------------
(* String.prototype operations *)

LowerAlpha == <<"a", "b", "c", "d", "e", "f", "g", "h", "i", "j", "k", "l", "m",
                "n", "o", "p", "q", "r", "s", "t", "u", "v", "w", "x", "y", "z">>
UpperAlpha == <<"A", "B", "C", "D", "E", "F", "G", "H", "I", "J", "K", "L", "M",
                "N", "O", "P", "Q", "R", "S", "T", "U", "V", "W", "X", "Y", "Z">>
Digits == {"0", "1", "2", "3", "4", "5", "6", "7", "8", "9"}

ToLowerChar(c) ==
  IF \E i \in 1..26 : UpperAlpha[i] = c
    THEN LowerAlpha[CHOOSE i \in 1..26 : UpperAlpha[i] = c]
    ELSE c

ToUpperChar(c) ==
  IF \E i \in 1..26 : LowerAlpha[i] = c
    THEN UpperAlpha[CHOOSE i \in 1..26 : LowerAlpha[i] = c]
    ELSE c

toLowerCase(s) == [i \in 1..Len(s) |-> ToLowerChar(s[i])]

\* \s of a regular expression and the white space removed by trim()
IsSpace(c) == c \in {" ", "\t", "\n", "\r"}

\* \w of a regular expression
IsWordChar(c) ==
  \/ \E i \in 1..26 : LowerAlpha[i] = c \/ UpperAlpha[i] = c
  \/ c \in Digits
  \/ c = "_"

RECURSIVE trimStart(_)
trimStart(s) ==
  IF s # <<>> /\ IsSpace(Head(s)) THEN trimStart(Tail(s)) ELSE s

RECURSIVE trimEnd(_)
trimEnd(s) ==
  IF s # <<>> /\ IsSpace(s[Len(s)]) THEN trimEnd(SubSeq(s, 1, Len(s) - 1)) ELSE s

trim(s) == trimEnd(trimStart(s))

startsWith(s, p) == Len(s) >= Len(p) /\ SubSeq(s, 1, Len(p)) = p

endsWith(s, p) == Len(s) >= Len(p) /\ SubSeq(s, Len(s) - Len(p) + 1, Len(s)) = p

\* Variant: the ending is removed whether or not it is ".com"
StripDotComAny(s) ==
  IF Len(s) >= Len(S_com) THEN SubSeq(s, 1, Len(s) - Len(S_com)) ELSE s

\* s.replace(/\.com$/, '')
StripDotCom(s) ==
  IF endsWith(s, S_com) THEN SubSeq(s, 1, Len(s) - Len(S_com)) ELSE s

\* Start positions at which /\b(w1|w2|...)\.?$/i matches in s (s is lower case
\* already, the words are lower case): the word begins at a word boundary and
\* runs, with an optional ".", to the end of the string.
SuffixMatches(s, words) ==
  { p \in 1..Len(s) :
      /\ (p = 1 \/ ~IsWordChar(s[p - 1]))
      /\ \E w \in words :
           \/ SubSeq(s, p, Len(s)) = w
           \/ SubSeq(s, p, Len(s)) = w \o <<".">> }

\* s.replace(/\b(w1|w2|...)\.?$/i, ''): the leftmost match is removed
StripSuffixWord(s, words) ==
  LET ms == SuffixMatches(s, words) IN
  IF ms = {} THEN s
  ELSE SubSeq(s, 1, (CHOOSE p \in ms : \A q \in ms : p <= q) - 1)

\* s.replace(/\s+/g, ' ')
RECURSIVE CollapseSpaces(_)
CollapseSpaces(s) ==
  IF s = <<>> THEN <<>>
  ELSE IF IsSpace(Head(s))
    THEN <<" ">> \o CollapseSpaces(trimStart(s))
    ELSE <<Head(s)>> \o CollapseSpaces(Tail(s))

\* s.split(' ').map(w => w.charAt(0).toUpperCase() + w.slice(1)).join(' ')
TitleCaseWords(s) ==
  [i \in 1..Len(s) |->
     IF i = 1 \/ s[i - 1] = " " THEN ToUpperChar(s[i]) ELSE s[i]]

----------------------------------------------------------------------------
(* services/enrichment: standardizeBrand *)

\* brandMappings, as <<key, canonical name>> pairs
brandMappings == {
    <<<<"a", "p", "p", "l", "e">>, <<"A", "p", "p", "l", "e">>>>,
    <<<<"a", "p", "p", "l", "e", " ", "i", "n", "c">>, <<"A", "p", "p", "l", "e">>>>,
    <<<<"a", "p", "p", "l", "e", " ", "i", "n", "c", ".">>, <<"A", "p", "p", "l", "e">>>>,
    <<<<"a", "m", "a", "z", "o", "n">>, <<"A", "m", "a", "z", "o", "n">>>>,
    <<<<"a", "m", "a", "z", "o", "n", ".", "c", "o", "m">>, <<"A", "m", "a", "z", "o", "n">>>>,
    <<<<"a", "m", "a", "z", "o", "n", " ", "i", "n", "c">>, <<"A", "m", "a", "z", "o", "n">>>>,
    <<<<"g", "o", "o", "g", "l", "e">>, <<"G", "o", "o", "g", "l", "e">>>>,
    <<<<"g", "o", "o", "g", "l", "e", " ", "l", "l", "c">>, <<"G", "o", "o", "g", "l", "e">>>>,
    <<<<"g", "o", "o", "g", "l", "e", " ", "i", "n", "c">>, <<"G", "o", "o", "g", "l", "e">>>>,
    <<<<"g", "o", "o", "g", "l", "e", " ", "i", "n", "c", ".">>, <<"G", "o", "o", "g", "l", "e">>>>,
    <<<<"m", "i", "c", "r", "o", "s", "o", "f", "t">>, <<"M", "i", "c", "r", "o", "s", "o", "f", "t">>>>,
    <<<<"m", "i", "c", "r", "o", "s", "o", "f", "t", " ", "c", "o", "r", "p">>, <<"M", "i", "c", "r", "o", "s", "o", "f", "t">>>>,
    <<<<"m", "i", "c", "r", "o", "s", "o", "f", "t", " ", "c", "o", "r", "p", "o", "r", "a", "t", "i", "o", "n">>, <<"M", "i", "c", "r", "o", "s", "o", "f", "t">>>> }

\* Variant: the corporate suffixes are removed before ".com"
StripSuffixesComLast(normalized) ==
  Call(StripDotCom,
    Call(LAMBDA s : StripSuffixWord(s, {S_corp, S_corporation}),
      Call(LAMBDA s : StripSuffixWord(s, {S_llc}),
        Call(LAMBDA s : StripSuffixWord(s, {S_inc}), normalized))))

\* The chain of replace calls on the lower-cased name
StripSuffixes(normalized) ==
  Call(LAMBDA s : StripSuffixWord(s, {S_corp, S_corporation}),
    Call(LAMBDA s : StripSuffixWord(s, {S_llc}),
      Call(LAMBDA s : StripSuffixWord(s, {S_inc}),
        Call(StripDotCom, normalized))))

\* The rules applied to a name that is not a key of brandMappings
BasicStandardization(normalized) ==
  Call(TitleCaseWords, Call(trim, Call(CollapseSpaces, StripSuffixes(normalized))))

\* The part of standardizeBrand after the trim
StandardizeTrimmed(trimmed) ==
  IF trimmed = <<>> THEN Str(trimmed)
  ELSE Call(LAMBDA normalized :
              IF \E m \in brandMappings : m[1] = normalized
                THEN Str((CHOOSE m \in brandMappings : m[1] = normalized)[2])
                ELSE Str(BasicStandardization(normalized)),
            toLowerCase(trimmed))

\* standardizeBrand(brand: string | null | undefined): string | null
standardizeBrand(brand) ==
  IF ~Truthy(brand) THEN (IF IsStr(brand) THEN Str(<<>>) ELSE NULL)
  ELSE Call(StandardizeTrimmed, trim(brand.s))

----------------------------------------------------------------------------
(* services/enrichment: normalizeMerchantName *)

\* merchantMappings, as <<key, canonical name>> pairs in the declared order,
\* the order in which Object.entries lists them
merchantMappings == <<
    <<S_walmart, S_Walmart>>,
    <<S_wal_mart, S_Walmart>>,
    <<S_target, S_Target>>,
    <<S_target \o <<" ">> \o S_corp, S_Target>>,
    <<S_target \o <<" ">> \o S_corporation, S_Target>>,
    <<S_amazon, S_Amazon>>,
    <<S_amazon \o S_com, S_Amazon>>,
    <<S_amazon \o <<" ">> \o S_marketplace, S_Amazon>>,
    <<S_amazon \o <<" ">> \o S_fulfillment_center, S_Amazon>> >>

\* s.includes(p)
includes(s, p) ==
  \E i \in 1..(Len(s) - Len(p) + 1) : SubSeq(s, i, i + Len(p) - 1) = p

\* The part of normalizeMerchantName after the trim: the exact match, the
\* first key contained in the name, else title case of the words
NormalizeTrimmed(trimmed) ==
  IF trimmed = <<>> THEN Str(trimmed)
  ELSE Call(LAMBDA normalized :
              IF \E i \in 1..Len(merchantMappings) : merchantMappings[i][1] = normalized
                THEN Str(merchantMappings[CHOOSE i \in 1..Len(merchantMappings) :
                                            merchantMappings[i][1] = normalized][2])
              ELSE IF \E i \in 1..Len(merchantMappings) :
                        includes(normalized, merchantMappings[i][1])
                THEN Str(merchantMappings[CHOOSE i \in 1..Len(merchantMappings) :
                            /\ includes(normalized, merchantMappings[i][1])
                            /\ \A j \in 1..(i - 1) :
                                 ~includes(normalized, merchantMappings[j][1])][2])
              ELSE Str(TitleCaseWords(normalized)),
            toLowerCase(trimmed))

\* Variant: every falsy name gives null
normalizeMerchantNameFalsyNull(merchantName) ==
  IF ~Truthy(merchantName) THEN NULL
  ELSE Call(NormalizeTrimmed, trim(merchantName.s))

\* normalizeMerchantName(merchantName: string | null | undefined): string | null
normalizeMerchantName(merchantName) ==
  IF ~Truthy(merchantName) THEN (IF IsStr(merchantName) THEN Str(<<>>) ELSE NULL)
  ELSE Call(NormalizeTrimmed, trim(merchantName.s))

----------------------------------------------------------------------------
(* JSON.parse, for texts that are arrays of string literals without escape  *)
(* sequences; every other text of the input sets below is malformed JSON.   *)

\* A string literal at the head of s: [ok, val, rest]
ParseStringLit(s) ==
  IF s = <<>> \/ Head(s) # "\"" THEN [ok |-> FALSE, val |-> <<>>, rest |-> s]
  ELSE
    LET body == Tail(s)
        closing == { i \in 1..Len(body) : body[i] = "\"" }
    IN IF closing = {} THEN [ok |-> FALSE, val |-> <<>>, rest |-> s]
       ELSE LET e == CHOOSE i \in closing : \A j \in closing : i <= j
            IN [ok |-> TRUE, val |-> SubSeq(body, 1, e - 1),
                rest |-> SubSeq(body, e + 1, Len(body))]

\* The elements after "[": [ok, val] with val the sequence parsed so far
RECURSIVE ParseElements(_, _)
ParseElements(s, acc) ==
  LET lit == ParseStringLit(trimStart(s))
      after == trimStart(lit.rest)
  IN IF ~lit.ok THEN [ok |-> FALSE, val |-> acc]
     ELSE IF after = <<>> THEN [ok |-> FALSE, val |-> acc]
     ELSE IF Head(after) = "," THEN ParseElements(Tail(after), Append(acc, Str(lit.val)))
     ELSE IF Head(after) = "]" /\ trimStart(Tail(after)) = <<>>
       THEN [ok |-> TRUE, val |-> Append(acc, Str(lit.val))]
     ELSE [ok |-> FALSE, val |-> acc]

\* JSON.parse(text): [ok |-> FALSE] stands for the SyntaxError it throws
JSONparse(text) ==
  LET s == trimStart(text) IN
  IF s = <<>> \/ Head(s) # "[" THEN [ok |-> FALSE, val |-> UNDEF]
  ELSE LET inner == trimStart(Tail(s)) IN
       IF inner # <<>> /\ Head(inner) = "]" /\ trimStart(Tail(inner)) = <<>>
         THEN [ok |-> TRUE, val |-> Arr(<<>>)]
       ELSE LET r == ParseElements(inner, <<>>) IN
            [ok |-> r.ok, val |-> IF r.ok THEN Arr(r.val) ELSE UNDEF]

----------------------------------------------------------------------------
(* Numbers, parseFloat, new URL and the datetime pattern.  A number is      *)
(* counted in hundredths: Num(9999) is 99.99.  The texts of the input sets   *)
(* carry at most two decimals and no exponent.                              *)

\* The result of a failed numeric conversion
NaN == [t |-> "NaN"]

DigitSeq == <<"0", "1", "2", "3", "4", "5", "6", "7", "8", "9">>

DigitVal(c) == (CHOOSE i \in 1..10 : DigitSeq[i] = c) - 1

\* The longest prefix of s made of decimal digits
RECURSIVE TakeDigits(_)
TakeDigits(s) ==
  IF s # <<>> /\ Head(s) \in Digits THEN <<Head(s)>> \o TakeDigits(Tail(s)) ELSE <<>>

\* The value of a sequence of decimal digits, 0 for the empty sequence
DigitsValue(ds) ==
  LET val[i \in 0..Len(ds)] ==
        IF i = 0 THEN 0 ELSE val[i - 1] * 10 + DigitVal(ds[i])
  IN val[Len(ds)]

\* The decimal numeral of a natural number
RECURSIVE NatToString(_)
NatToString(n) ==
  IF n < 10 THEN <<DigitSeq[n + 1]>>
  ELSE NatToString(n \div 10) \o <<DigitSeq[(n % 10) + 1]>>

\* String(x) for a number x: no trailing zeros in the fraction
NumberToString(n) ==
  LET a == IF n < 0 THEN -n ELSE n
      sign == IF n < 0 THEN <<"-">> ELSE <<>>
      frac == a % 100
  IN sign \o NatToString(a \div 100) \o
       (IF frac = 0 THEN <<>>
        ELSE IF frac % 10 = 0 THEN <<".", DigitSeq[(frac \div 10) + 1]>>
        ELSE <<".", DigitSeq[(frac \div 10) + 1], DigitSeq[(frac % 10) + 1]>>)

\* The digits after a "." at the head of s, <<>> when there is none
FractionDigits(s) ==
  IF s # <<>> /\ Head(s) = "." THEN TakeDigits(Tail(s)) ELSE <<>>

\* The longest prefix of u that is an unsigned decimal literal, converted;
\* NaN when there is none
StrDecimalLiteral(u) ==
  Call(LAMBDA ip :
         Call(LAMBDA fp :
                IF ip = <<>> /\ fp = <<>> THEN NaN
                ELSE Num(DigitsValue(ip) * 100
                         + DigitsValue(SubSeq(fp \o <<"0", "0">>, 1, 2))),
              FractionDigits(SubSeq(u, Len(ip) + 1, Len(u)))),
       TakeDigits(u))

\* The literal after the white space and the sign at the head of t
SignedLiteral(t) ==
  IF t # <<>> /\ Head(t) \in {"-", "+"}
    THEN Call(LAMBDA x : IF x = NaN \/ Head(t) = "+" THEN x ELSE Num(-x.n),
              StrDecimalLiteral(Tail(t)))
    ELSE StrDecimalLiteral(t)

\* parseFloat(v): the argument is converted to a string; leading white space
\* is skipped and the longest prefix that is a decimal literal is converted,
\* NaN when there is none
parseFloat(v) ==
  Call(SignedLiteral,
       trimStart(IF v.t = "number" THEN NumberToString(v.n) ELSE v.s))

\* isNaN(x), for x a number or NaN
isNaN(x) == x = NaN

IsAlpha(c) == \E i \in 1..26 : LowerAlpha[i] = c \/ UpperAlpha[i] = c

\* new URL(s) succeeds: s has a scheme (a letter, then letters, digits, "+",
\* "-" or "."), and after "http:" or "https:" a host follows
IsUrl(s) ==
  LET t == trim(s)
      colons == { i \in 1..Len(t) : t[i] = ":" }
  IN /\ colons # {}
     /\ LET c == CHOOSE i \in colons : \A j \in colons : i <= j
            scheme == SubSeq(t, 1, c - 1)
            rest == SubSeq(t, c + 1, Len(t))
            slashes == { i \in 0..Len(rest) :
                           \A j \in 1..i : rest[j] \in {"/", "\\"} }
            lead == CHOOSE i \in slashes : \A j \in slashes : j <= i
            host == SubSeq(rest, lead + 1, Len(rest))
        IN /\ scheme # <<>>
           /\ IsAlpha(scheme[1])
           /\ \A i \in 1..Len(scheme) :
                IsAlpha(scheme[i]) \/ scheme[i] \in Digits \/ scheme[i] \in {"+", "-", "."}
           /\ toLowerCase(scheme) \in {S_http, S_https} =>
                (host # <<>> /\ ~IsSpace(host[1]) /\ host[1] \notin {"/", "?", "#"})

\* /^\d{4}-\d{2}-\d{2}T\d{2}:\d{2}:\d{2}(\.\d+)?Z$/ matches s
IsDatetime(s) ==
  /\ Len(s) >= 20
  /\ \A i \in {1, 2, 3, 4, 6, 7, 9, 10, 12, 13, 15, 16, 18, 19} : s[i] \in Digits
  /\ s[5] = "-" /\ s[8] = "-" /\ s[11] = "T" /\ s[14] = ":" /\ s[17] = ":"
  /\ s[Len(s)] = "Z"
  /\ Len(s) > 20 =>
       /\ s[20] = "."
       /\ Len(s) >= 22
       /\ \A i \in 21..(Len(s) - 1) : s[i] \in Digits

----------------------------------------------------------------------------
(* Request bodies: an object is the sequence of its entries in insertion   *)
(* order, each entry a key and a value.                                    *)

LowerKeys == <<"receipt_id", "product_description", "brand", "product_category",
              "total_price_paid", "product_image_url", "receipt_created_timestamp">>
UpperKeys == <<"RECEIPT_ID", "PRODUCT_DESCRIPTION", "BRAND", "PRODUCT_CATEGORY",
              "TOTAL_PRICE_PAID", "PRODUCT_IMAGE_URL", "RECEIPT_CREATED_TIMESTAMP">>
MixedKeys == <<"Receipt_Id", "Product_Description", "Brand", "Product_Category",
              "Total_Price_Paid", "Product_Image_Url", "Receipt_Created_Timestamp">>

FieldIx == 1..Len(LowerKeys)

\* key.toLowerCase(), for the keys above
KeyToLowerCase(k) ==
  IF \E i \in FieldIx : k \in {UpperKeys[i], MixedKeys[i]}
    THEN LowerKeys[CHOOSE i \in FieldIx : k \in {UpperKeys[i], MixedKeys[i]}]
    ELSE k

\* obj[key]: the value of the entry with that key, undefined when there is none
Get(obj, key) ==
  IF \E i \in 1..Len(obj) : obj[i].k = key
    THEN obj[CHOOSE i \in 1..Len(obj) : obj[i].k = key].v
    ELSE UNDEF

\* transformed[key.toLowerCase()] = value, for the entries in order: a later
\* entry overwrites an earlier one with the same lower-cased key
RECURSIVE LowerCaseKeys(_, _)
LowerCaseKeys(entries, transformed) ==
  IF entries = <<>> THEN transformed
  ELSE LET e == Head(entries)
           lk == KeyToLowerCase(e.k)
           pos == IF \E i \in 1..Len(transformed) : transformed[i].k = lk
                    THEN CHOOSE i \in 1..Len(transformed) : transformed[i].k = lk
                    ELSE 0
       IN LowerCaseKeys(Tail(entries),
            IF pos = 0 THEN Append(transformed, [k |-> lk, v |-> e.v])
            ELSE [transformed EXCEPT ![pos] = [k |-> lk, v |-> e.v]])

\* caseInsensitiveField preprocess step
caseInsensitiveField(val) == LowerCaseKeys(val, <<>>)

(* zod schemas: each check returns the sequence of issues it raises.  The   *)
(* schema is the case-insensitive ReceiptInputSchema, the one the schema    *)
(* unit tests exercise with lower-, upper- and mixed-case bodies.           *)

Issue(field, code) == [field |-> field, code |-> code]

\* z.string().optional().nullable()
ZOptNullString(field, v) ==
  IF v.t \in {"undefined", "null", "string"} THEN <<>>
  ELSE <<Issue(field, "invalid_type")>>

\* z.string().min(1, 'Receipt ID is required').optional()
ZReceiptId(field, v) ==
  IF v.t = "undefined" THEN <<>>
  ELSE IF v.t # "string" THEN <<Issue(field, "invalid_type")>>
  ELSE IF Len(v.s) < 1 THEN <<Issue(field, "too_small")>>
  ELSE <<>>

\* z.union([z.array(z.string()), z.string()]).optional().nullable()
ZCategory(field, v) ==
  IF v.t \in {"undefined", "null", "string"} THEN <<>>
  ELSE IF v.t = "array" /\ \A i \in 1..Len(v.a) : IsStr(v.a[i]) THEN <<>>
  ELSE <<Issue(field, "invalid_union")>>

\* z.string().datetime().optional().nullable()
ZDatetime(field, v) ==
  IF v.t \in {"undefined", "null"} THEN <<>>
  ELSE IF v.t # "string" THEN <<Issue(field, "invalid_type")>>
  ELSE IF ~IsDatetime(v.s) THEN <<Issue(field, "invalid_string")>>
  ELSE <<>>

\* z.union([z.string(), z.number()]).optional().nullable()
ZPrice(field, v) ==
  IF v.t \in {"undefined", "null", "string", "number"} THEN <<>>
  ELSE <<Issue(field, "invalid_union")>>

ZUrlNoCheck(field, v) ==
  IF v.t \in {"undefined", "null", "string"} THEN <<>>
  ELSE <<Issue(field, "invalid_type")>>

\* z.string().url().optional().nullable()
ZUrl(field, v) ==
  IF v.t \in {"undefined", "null"} THEN <<>>
  ELSE IF v.t # "string" THEN <<Issue(field, "invalid_type")>>
  ELSE IF ~IsUrl(v.s) THEN <<Issue(field, "invalid_string")>>
  ELSE <<>>

\* BaseReceiptSchema: the field checks, then the refinement on receipt_id
\* (skipped by zod when a field has the wrong type)
BaseReceiptSchema(data) ==
  LET fieldIssues ==
        ZReceiptId("receipt_id", Get(data, "receipt_id"))
        \o ZDatetime("receipt_created_timestamp",
                     Get(data, "receipt_created_timestamp"))
        \o ZOptNullString("product_description", Get(data, "product_description"))
        \o ZOptNullString("brand", Get(data, "brand"))
        \o ZCategory("product_category", Get(data, "product_category"))
        \o ZPrice("total_price_paid", Get(data, "total_price_paid"))
        \o ZUrl("product_image_url", Get(data, "product_image_url"))
      aborted == \E i \in 1..Len(fieldIssues) :
                    fieldIssues[i].code \in {"invalid_type", "invalid_union"}
  IN IF ~aborted /\ ~Truthy(Get(data, "receipt_id"))
       THEN Append(fieldIssues, Issue("receipt_id", "custom"))
       ELSE fieldIssues

\* ReceiptInputSchema.parse(body): the issues of the ZodError, <<>> on success
ReceiptInputSchema(body) == BaseReceiptSchema(caseInsensitiveField(body))

----------------------------------------------------------------------------
(* services/enrichment: EnrichmentSchema and enrichReceiptData             *)

DetailFields == {"upc", "size", "color", "material", "model", "weight"}

\* A JSON object with the keys of an enrichment response; an absent key is
\* undefined
Obj(brand, category, details, confidence) ==
  [t |-> "object", brand |-> brand, category |-> category,
   upc |-> details.upc, size |-> details.size, color |-> details.color,
   material |-> details.material, model |-> details.model,
   weight |-> details.weight, confidence |-> confidence]

\* Variant: the category must hold at least one entry
EnrichmentSchemaNonEmpty(parsed) ==
  /\ parsed.t = "object"
  /\ IsStr(parsed.brand)
  /\ IsArr(parsed.category)
  /\ Len(parsed.category.a) >= 1
  /\ \A i \in 1..Len(parsed.category.a) : IsStr(parsed.category.a[i])
  /\ \A f \in DetailFields : parsed[f].t \in {"string", "null"}
  /\ IsStr(parsed.confidence)
  /\ parsed.confidence.s \in {S_high, S_medium, S_low}

\* EnrichmentSchema.parse(parsed) succeeds
EnrichmentSchema(parsed) ==
  /\ parsed.t = "object"
  /\ IsStr(parsed.brand)
  /\ IsArr(parsed.category)
  /\ \A i \in 1..Len(parsed.category.a) : IsStr(parsed.category.a[i])
  /\ \A f \in DetailFields : parsed[f].t \in {"string", "null"}
  /\ IsStr(parsed.confidence)
  /\ parsed.confidence.s \in {S_high, S_medium, S_low}

\* Variant: the fallback forgets the existing brand
DegradedResultNoBrand(existingBrand) ==
  [t |-> "object",
   brand |-> Str(S_unknown),
   category |-> Arr(<<Str(S_unknown)>>),
   upc |-> NULL, size |-> NULL, color |-> NULL,
   material |-> NULL, model |-> NULL, weight |-> NULL,
   confidence |-> Str(S_low)]

\* Variant: the fallback guesses a category
DegradedResultCategory(existingBrand) ==
  [t |-> "object",
   brand |-> JsOr(existingBrand, Str(S_unknown)),
   category |-> Arr(<<Str(S_Electronics)>>),
   upc |-> NULL, size |-> NULL, color |-> NULL,
   material |-> NULL, model |-> NULL, weight |-> NULL,
   confidence |-> Str(S_low)]

\* The object returned by the catch block of enrichReceiptData
DegradedResult(existingBrand) ==
  [t |-> "object",
   brand |-> JsOr(existingBrand, Str(S_unknown)),
   category |-> Arr(<<Str(S_unknown)>>),
   upc |-> NULL, size |-> NULL, color |-> NULL,
   material |-> NULL, model |-> NULL, weight |-> NULL,
   confidence |-> Str(S_low)]

\* The try block: generateLLMText, JSON.parse, EnrichmentSchema.parse.
\* reply.kind = "reject" or "timeout": generateLLMText rejected (network
\* error, or no response within the timeout set around the call);
\* otherwise reply.json tells whether the text is JSON and reply.val is the
\* parsed value.
EnrichTry(reply) ==
  IF reply.kind \in {"reject", "timeout"} THEN [threw |-> TRUE, val |-> UNDEF]
  ELSE IF ~reply.json THEN [threw |-> TRUE, val |-> UNDEF]
  ELSE IF ~EnrichmentSchema(reply.val) THEN [threw |-> TRUE, val |-> UNDEF]
  ELSE [threw |-> FALSE, val |-> reply.val]

\* Variant: the catch block rethrows a timeout
enrichReceiptDataTimeoutThrows(existingBrand, reply) ==
  LET r == EnrichTry(reply) IN
  IF r.threw /\ reply.kind # "timeout"
    THEN [threw |-> FALSE, val |-> DegradedResult(existingBrand)]
    ELSE r

\* Variant: no catch block, the error of the try block propagates
enrichReceiptDataNoCatch(existingBrand, reply) == EnrichTry(reply)

\* enrichReceiptData(productDescription, merchantName, existingBrand,
\* existingProductCode), given the reply of generateLLMText
enrichReceiptData(existingBrand, reply) ==
  LET r == EnrichTry(reply) IN
  IF r.threw THEN [threw |-> FALSE, val |-> DegradedResult(existingBrand)]
  ELSE r

----------------------------------------------------------------------------
(* POST /receipt: the handler's computations                               *)

\* receiptData.<lower> || receiptData.<UPPER>
Read(receiptData, lower, upper) ==
  JsOr(Get(receiptData, lower), Get(receiptData, upper))

\* productCategory after the JSON.parse attempt
ParsedCategory(raw) ==
  IF IsStr(raw) /\ startsWith(raw.s, <<"[">>)
    THEN LET r == JSONparse(raw.s) IN IF r.ok THEN r.val ELSE raw
    ELSE raw

\* !productCategory || (Array.isArray(..) && length === 0) ||
\* (typeof .. === 'string' && !..trim())
CategoryMissing(productCategory) ==
  \/ ~Truthy(productCategory)
  \/ (IsArr(productCategory) /\ Len(productCategory.a) = 0)
  \/ (IsStr(productCategory) /\ trim(productCategory.s) = <<>>)

\* Variant: the enrich=true query parameter is ignored
needsEnrichmentNoForce(productDescription, forceEnrichment, brand, productCategory) ==
  /\ Truthy(productDescription)
  /\ \/ ~Truthy(brand)
     \/ CategoryMissing(productCategory)

needsEnrichment(productDescription, forceEnrichment, brand, productCategory) ==
  /\ Truthy(productDescription)
  /\ \/ forceEnrichment
     \/ ~Truthy(brand)
     \/ CategoryMissing(productCategory)

\* Variant: the "unknown" sentinel is not recognised in the enriched brand
finalBrandNoSentinel(brand, enrichmentResult) ==
  IF enrichmentResult # UNDEF
     /\ (~Truthy(brand) \/ enrichmentResult.confidence = Str(S_high))
    THEN enrichmentResult.brand
    ELSE brand

\* Variant: the enriched brand replaces the supplied one at any confidence
finalBrandAnyConfidence(brand, enrichmentResult) ==
  IF enrichmentResult # UNDEF
    THEN (IF enrichmentResult.brand # Str(S_unknown)
            THEN enrichmentResult.brand ELSE brand)
    ELSE brand

\* finalBrand; enrichmentResult is undefined when enrichment did not run
finalBrand(brand, enrichmentResult) ==
  IF enrichmentResult # UNDEF
     /\ (~Truthy(brand) \/ enrichmentResult.confidence = Str(S_high))
    THEN (IF enrichmentResult.brand # Str(S_unknown)
            THEN enrichmentResult.brand ELSE brand)
    ELSE brand

\* Variant: the "unknown" sentinel is not recognised in the enriched category
finalCategoryNoSentinel(productCategory, enrichmentResult) ==
  IF enrichmentResult # UNDEF
     /\ (CategoryMissing(productCategory)
         \/ enrichmentResult.confidence = Str(S_high))
    THEN (IF Len(enrichmentResult.category.a) > 0
            THEN enrichmentResult.category ELSE productCategory)
    ELSE productCategory

finalCategory(productCategory, enrichmentResult) ==
  IF enrichmentResult # UNDEF
     /\ (CategoryMissing(productCategory)
         \/ enrichmentResult.confidence = Str(S_high))
    THEN (IF Len(enrichmentResult.category.a) > 0
             /\ enrichmentResult.category.a[1] # Str(S_unknown)
            THEN enrichmentResult.category ELSE productCategory)
    ELSE productCategory

\* enrichmentResult?.field || null
DetailOrNull(enrichmentResult, f) ==
  IF enrichmentResult = UNDEF THEN NULL ELSE JsOr(enrichmentResult[f], NULL)

\* Variant: no default for a missing price
totalPricePaidNoDefault(receiptData) ==
  IF Truthy(Read(receiptData, "total_price_paid", "TOTAL_PRICE_PAID"))
    THEN parseFloat(Read(receiptData, "total_price_paid", "TOTAL_PRICE_PAID"))
    ELSE NaN

\* parseFloat(receiptData.total_price_paid || receiptData.TOTAL_PRICE_PAID || '0')
totalPricePaid(receiptData) ==
  parseFloat(JsOr(Read(receiptData, "total_price_paid", "TOTAL_PRICE_PAID"),
                  Str(S_zero)))

\* new Date(text)
Date(text) == [t |-> "date", s |-> text.s]

\* (ts || TS) ? new Date(ts || TS) : null
receiptCreatedTimestamp(receiptData) ==
  LET ts == Read(receiptData, "receipt_created_timestamp", "RECEIPT_CREATED_TIMESTAMP")
  IN IF Truthy(ts) THEN Date(ts) ELSE NULL

\* Variant: enriched_brand is stored for a high-confidence result only
enrichedBrandHighOnly(brand, enrichmentResult) ==
  IF enrichmentResult # UNDEF
    THEN (IF enrichmentResult.confidence = Str(S_high)
            THEN standardizeBrand(enrichmentResult.brand) ELSE NULL)
    ELSE standardizeBrand(brand)

\* Variant: the standardizer applied to the reconciled brand
enrichedBrandOfFinal(brand, enrichmentResult) ==
  standardizeBrand(finalBrand(brand, enrichmentResult))

\* insertData.enrichedBrand
enrichedBrand(brand, enrichmentResult) ==
  IF enrichmentResult # UNDEF
    THEN standardizeBrand(enrichmentResult.brand)
    ELSE standardizeBrand(brand)

insertData(receiptData, brand, productCategory, enrichmentResult) ==
  [receiptId |-> Read(receiptData, "receipt_id", "RECEIPT_ID"),
   productDescription |-> Read(receiptData, "product_description", "PRODUCT_DESCRIPTION"),
   brand |-> finalBrand(brand, enrichmentResult),
   productCategory |-> finalCategory(productCategory, enrichmentResult),
   receiptCreatedTimestamp |-> receiptCreatedTimestamp(receiptData),
   totalPricePaid |-> IF isNaN(totalPricePaid(receiptData))
                        THEN NULL ELSE totalPricePaid(receiptData),
   productImageUrl |-> Read(receiptData, "product_image_url", "PRODUCT_IMAGE_URL"),
   enrichedBrand |-> enrichedBrand(brand, enrichmentResult),
   enrichedCategory |-> IF enrichmentResult # UNDEF
                          THEN enrichmentResult.category ELSE NULL,
   enrichedUpc |-> DetailOrNull(enrichmentResult, "upc"),
   enrichedSize |-> DetailOrNull(enrichmentResult, "size"),
   enrichedColor |-> DetailOrNull(enrichmentResult, "color"),
   enrichedMaterial |-> DetailOrNull(enrichmentResult, "material"),
   enrichedModel |-> DetailOrNull(enrichmentResult, "model"),
   enrichedWeight |-> DetailOrNull(enrichmentResult, "weight"),
   enrichmentConfidence |-> DetailOrNull(enrichmentResult, "confidence")]

\* The row a record becomes in the table: an undefined value is not sent and
\* the column takes its default, NULL
ToRow(data) == [f \in DOMAIN data |-> IF data[f] = UNDEF THEN NULL ELSE data[f]]

\* Variant: no uniqueness check on receipt_id
InsertErrorNoUnique(table, data) ==
  IF ~IsStr(data.receiptId) THEN "23502" ELSE ""

\* Variant: any stored row conflicts with the insert
InsertErrorAnyRow(table, data) ==
  IF ~IsStr(data.receiptId) THEN "23502"
  ELSE IF table # <<>> THEN "23505"
  ELSE ""

\* The SQLSTATE the insert fails with, "" when it succeeds: the primary key
\* receipt_id is NOT NULL and unique
InsertError(table, data) ==
  IF ~IsStr(data.receiptId) THEN "23502"
  ELSE IF \E i \in 1..Len(table) : table[i].receiptId = data.receiptId THEN "23505"
  ELSE ""

\* Variant: the unique-constraint violation is not recognised
errorHandlerNoConflict(code) ==
  CASE code = "23502" -> 400
    [] OTHER -> 500

\* errorHandler: the HTTP status for an error
errorHandler(code) ==
  CASE code = "23505" -> 409
    [] code = "23502" -> 400
    [] OTHER -> 500

----------------------------------------------------------------------------
(* Inputs: request bodies, query flag and replies of the language model    *)

\* Number of concurrent ingestion requests
NumRequests == 2

\* The body with the given keys (one casing of every field) and the values of
\* its first fields; a field whose value is undefined is absent from the body
MkBody(keys, vals) ==
  SelectSeq([i \in 1..Len(vals) |-> [k |-> keys[i], v |-> vals[i]]],
            LAMBDA e : e.v # UNDEF)

KeyStyles == {LowerKeys, UpperKeys, MixedKeys}

Descriptions == {UNDEF, Str(<<>>), Str(S_iPhone)}
Brands == {UNDEF, NULL, Str(<<>>), Str(S_Apple), Str(S_amazon_com)}
Categories ==
  {UNDEF, NULL, Arr(<<>>), Arr(<<Str(S_Electronics)>>), Str(<<>>), Str(S_blank),
   Str(S_Books), Str(S_json_empty), Str(S_json_AB), Str(S_json_bad),
   Str(S_json_AB_padded)}
Prices ==
  {NULL, Num(0), Num(9999), Str(S_zero), Str(S_99_99), Str(<<>>), Str(S_blank),
   Str(S_12abc), Str(S_not_a_number), Arr(<<>>)}
ImageUrls == {NULL, Str(S_url), Str(S_not_a_url), Str(<<>>), Num(7)}
Timestamps ==
  {NULL, Str(S_datetime), Str(S_date_only), Str(S_yesterday), Str(<<>>), Num(7)}

\* Bodies that vary the price, the image URL or the timestamp; without a
\* description, so that no enrichment is needed
FieldBodies ==
  { MkBody(ks, <<Str(S_R1), UNDEF, Str(S_Apple), Str(S_Books), p>>) :
      ks \in KeyStyles, p \in Prices }
  \cup { MkBody(ks, <<Str(S_R1), UNDEF, Str(S_Apple), Str(S_Books), UNDEF, u, t>>) :
           ks \in KeyStyles, u \in ImageUrls, t \in Timestamps }

\* Bodies with up to four invalid fields, and a description that would call
\* for enrichment
InvalidBodies ==
  { MkBody(ks, <<id, Str(S_iPhone), b, UNDEF, UNDEF, u, t>>) :
      ks \in KeyStyles,
      id \in {UNDEF, Str(<<>>), Str(S_R1)},
      b \in {UNDEF, Num(7)},
      u \in {UNDEF, Str(S_not_a_url)},
      t \in {UNDEF, Str(S_yesterday)} }

\* Bodies with one consistent key casing
MergeBodies ==
  { MkBody(ks, <<Str(S_R1), d, b, c>>) :
      ks \in KeyStyles, d \in Descriptions, b \in Brands, c \in Categories }
  \cup { MkBody(LowerKeys, <<id, Str(S_iPhone), b, UNDEF>>) :
           id \in {UNDEF, NULL, Str(<<>>)}, b \in {UNDEF, Num(7)} }
  \cup FieldBodies
  \cup InvalidBodies

MergeInputs == { [body |-> b, force |-> f] : b \in MergeBodies, f \in BOOLEAN }

NoDetails ==
  [upc |-> NULL, size |-> NULL, color |-> NULL,
   material |-> NULL, model |-> NULL, weight |-> NULL]
FullDetails ==
  [upc |-> Str(S_upc), size |-> Str(S_13inch), color |-> Str(S_A),
   material |-> Str(S_B), model |-> Str(S_Phones), weight |-> Str(S_Books)]
DetailChoices ==
  {FullDetails,
   [FullDetails EXCEPT !.upc = Str(<<>>), !.size = NULL],
   [NoDetails EXCEPT !.upc = UNDEF],
   [NoDetails EXCEPT !.weight = Num(2)]}

RejectReply == [kind |-> "reject", json |-> FALSE, val |-> UNDEF]
\* No response within the timeout set around the call: it rejects as well
TimeoutReply == [kind |-> "timeout", json |-> FALSE, val |-> UNDEF]
NotJsonReply == [kind |-> "text", json |-> FALSE, val |-> UNDEF]
JsonReply(v) == [kind |-> "text", json |-> TRUE, val |-> v]

MergeReplies ==
  {RejectReply, TimeoutReply, NotJsonReply, JsonReply(NULL)}
  \cup { JsonReply(Obj(b, c, NoDetails, k)) :
           b \in {Str(S_unknown), Str(S_Apple), Str(S_AppleComputer), Str(<<>>), Num(7)},
           c \in {Arr(<<>>), Arr(<<Str(S_unknown)>>),
                  Arr(<<Str(S_Electronics), Str(S_Phones)>>),
                  Str(S_Electronics), Arr(<<Num(7)>>)},
           k \in {Str(S_high), Str(S_medium), Str(S_low), Str(S_certain), UNDEF} }
  \cup { JsonReply(Obj(Str(S_Apple), Arr(<<Str(S_Electronics), Str(S_Phones)>>),
                       d, Str(S_high))) : d \in DetailChoices }

\* A few requests for the runs with concurrent requests
ConcurrentInputs ==
  { [body |-> MkBody(LowerKeys, <<Str(S_R1), Str(S_iPhone), UNDEF, UNDEF>>),
     force |-> FALSE],
    [body |-> MkBody(UpperKeys, <<Str(S_R1), UNDEF, Str(S_Apple), Str(S_Books)>>),
     force |-> FALSE],
    [body |-> MkBody(MixedKeys, <<Str(S_R1), Str(S_iPhone), UNDEF, UNDEF>>),
     force |-> FALSE],
    [body |-> MkBody(LowerKeys, <<Str(S_R2), Str(S_iPhone), Str(S_Apple),
                                  Arr(<<Str(S_Electronics)>>)>>),
     force |-> TRUE],
    [body |-> MkBody(LowerKeys, <<UNDEF, Str(S_iPhone), UNDEF, UNDEF>>),
     force |-> FALSE] }

ConcurrentReplies ==
  {RejectReply,
   JsonReply(Obj(Str(S_AppleComputer), Arr(<<Str(S_Electronics), Str(S_Phones)>>),
                 NoDetails, Str(S_high))),
   JsonReply(Obj(Str(<<>>), Arr(<<>>), NoDetails, Str(S_low)))}

\* Requests that call the Enrichment Client, for the runs in which the call
\* may get no response
TimeoutInputs ==
  { [body |-> MkBody(LowerKeys, <<Str(S_R1), Str(S_iPhone), UNDEF, UNDEF>>),
     force |-> FALSE],
    [body |-> MkBody(LowerKeys, <<Str(S_R2), Str(S_iPhone), Str(S_Apple),
                                  Arr(<<Str(S_Electronics)>>)>>),
     force |-> TRUE] }

TimeoutReplies ==
  {TimeoutReply,
   JsonReply(Obj(Str(S_AppleComputer), Arr(<<Str(S_Electronics), Str(S_Phones)>>),
                 NoDetails, Str(S_high)))}

\* The requests and replies the environment may send in the current workload
inputs ==
  CASE workload = "merge" -> MergeInputs
    [] workload = "timeout" -> TimeoutInputs
    [] OTHER -> ConcurrentInputs
replies ==
  CASE workload = "merge" -> MergeReplies
    [] workload = "timeout" -> TimeoutReplies
    [] OTHER -> ConcurrentReplies

----------------------------------------------------------------------------
(* State: one record per ingestion request and the receipts table          *)

Requests == DOMAIN reqs

IdleRequest ==
  [pc |-> "idle", body |-> <<>>, forceEnrichment |-> FALSE, issues |-> <<>>,
   productDescription |-> UNDEF, brand |-> UNDEF, productCategory |-> UNDEF,
   enrichCalls |-> 0, reply |-> UNDEF, enrichmentResult |-> UNDEF,
   insertData |-> UNDEF, error |-> "", status |-> 0, resEnrichment |-> UNDEF]

\* The response of the latest GET /receipt/:receipt_id; none at the start
NoLookup == [receipt_id |-> NULL, status |-> 0, body |-> NULL]

\* The identifiers looked up
LookupIds == {Str(S_R1), Str(S_R2)}

\* No call of standardizeBrand or normalizeMerchantName made yet
NoCall == [fn |-> "", arg |-> NULL, out |-> NULL, again |-> UNDEF]

Init ==
  /\ reqs = [r \in 1..NumRequests |-> IdleRequest]
  /\ store = <<>>
  /\ workload = "concurrent"
  /\ lookup = NoLookup
  /\ call = NoCall

\* One request at a time, over every body and every reply
InitMerge ==
  /\ reqs = [r \in {1} |-> IdleRequest]
  /\ store = <<>>
  /\ workload = "merge"
  /\ lookup = NoLookup
  /\ call = NoCall

\* Concurrent requests whose call of the Enrichment Client may time out
InitLive ==
  /\ reqs = [r \in 1..NumRequests |-> IdleRequest]
  /\ store = <<>>
  /\ workload = "timeout"
  /\ lookup = NoLookup
  /\ call = NoCall

\* A request arrives: validateRequest(ReceiptInputSchema), then, when it calls
\* next(), the handler up to the call of enrichReceiptData (its await of
\* generateLLMText) or, without enrichment, up to the await of db.insert.
\* The handler's await of import('./services/enrichment.js') changes no state
\* and is not a step of its own.
Receive(r) ==
  /\ reqs[r].pc = "idle"
  /\ \E in \in inputs :
       LET receiptData == in.body
           issues == ReceiptInputSchema(receiptData)
           productDescription ==
             Read(receiptData, "product_description", "PRODUCT_DESCRIPTION")
           brand == Read(receiptData, "brand", "BRAND")
           productCategory ==
             ParsedCategory(Read(receiptData, "product_category", "PRODUCT_CATEGORY"))
           received == [reqs[r] EXCEPT !.body = receiptData,
                                       !.forceEnrichment = in.force,
                                       !.issues = issues]
           started == [received EXCEPT !.productDescription = productDescription,
                                       !.brand = brand,
                                       !.productCategory = productCategory]
       IN reqs' = [reqs EXCEPT ![r] =
            IF issues # <<>>
              THEN [received EXCEPT !.pc = "done", !.status = 400]
            ELSE IF needsEnrichment(productDescription, in.force, brand, productCategory)
              THEN [started EXCEPT !.pc = "awaitLLM", !.enrichCalls = @ + 1]
            ELSE [started EXCEPT !.pc = "awaitInsert",
                                 !.insertData = insertData(receiptData, brand,
                                                           productCategory, UNDEF)]]
  /\ UNCHANGED <<store, workload, lookup, call>>

\* generateLLMText settles: enrichReceiptData returns, the handler reconciles
\* the fields, builds insertData and awaits db.insert
LLMReply(r) ==
  /\ reqs[r].pc = "awaitLLM"
  /\ UNCHANGED <<store, workload, lookup, call>>
  /\ \E reply \in replies :
       LET q == reqs[r]
           Settled(res) ==
             IF res.threw
               THEN [q EXCEPT !.pc = "insertDone", !.reply = reply,
                              !.error = "ENRICHMENT"]
               ELSE [q EXCEPT !.pc = "awaitInsert", !.reply = reply,
                              !.enrichmentResult = res.val,
                              !.insertData = insertData(q.body, q.brand,
                                                        q.productCategory, res.val)]
       IN reqs' = [reqs EXCEPT ![r] = Call(Settled, enrichReceiptData(q.brand, reply))]

\* The database executes the INSERT of the request
DbInsert(r) ==
  /\ reqs[r].pc = "awaitInsert"
  /\ UNCHANGED <<workload, lookup, call>>
  /\ LET code == InsertError(store, reqs[r].insertData) IN
       /\ reqs' = [reqs EXCEPT ![r].pc = "insertDone", ![r].error = code]
       /\ store' = IF code = "" THEN Append(store, ToRow(reqs[r].insertData)) ELSE store

\* Variant: the success response is sent whatever the insert did
RespondIgnoreError(r) ==
  /\ reqs[r].pc = "insertDone"
  /\ UNCHANGED <<store, workload, lookup, call>>
  /\ LET q == reqs[r] IN
     reqs' = [reqs EXCEPT ![r] =
       [q EXCEPT !.pc = "done", !.status = 201,
                 !.resEnrichment = IF q.enrichmentResult # UNDEF
                                     THEN q.enrichmentResult ELSE NULL]]

\* Variant: a failed insert is attempted again
RespondRetry(r) ==
  /\ reqs[r].pc = "insertDone"
  /\ UNCHANGED <<store, workload, lookup, call>>
  /\ LET q == reqs[r] IN
     reqs' = [reqs EXCEPT ![r] =
       IF q.error = ""
         THEN [q EXCEPT !.pc = "done", !.status = 201,
                        !.resEnrichment = IF q.enrichmentResult # UNDEF
                                            THEN q.enrichmentResult ELSE NULL]
         ELSE [q EXCEPT !.pc = "awaitInsert", !.error = ""]]

\* The handler resumes: res.status(201).json(..), or asyncHandler passes the
\* error to errorHandler, which sends the response
Respond(r) ==
  /\ reqs[r].pc = "insertDone"
  /\ UNCHANGED <<store, workload, lookup, call>>
  /\ LET q == reqs[r] IN
     reqs' = [reqs EXCEPT ![r] =
       IF q.error = ""
         THEN [q EXCEPT !.pc = "done", !.status = 201,
                        !.resEnrichment = IF q.enrichmentResult # UNDEF
                                            THEN q.enrichmentResult ELSE NULL]
         ELSE [q EXCEPT !.pc = "done", !.status = errorHandler(q.error)]]

\* Variant: the select has no where clause
SelectReceiptAny(table, receipt_id) == table

\* db.select().from(receipts).where(eq(receipts.receiptId, receipt_id)).limit(1)
SelectReceipt(table, receipt_id) ==
  SelectSeq(table, LAMBDA row : row.receiptId = receipt_id)

\* GET /receipt/:receipt_id: validateParams (a path parameter is a non-empty
\* string), the select and the response, 404 when no row is found
GetReceipt ==
  /\ \E receipt_id \in LookupIds :
       LET receipt == SelectReceipt(store, receipt_id) IN
       lookup' = IF Len(receipt) = 0
                   THEN [receipt_id |-> receipt_id, status |-> 404, body |-> NULL]
                   ELSE [receipt_id |-> receipt_id, status |-> 200,
                         body |-> receipt[1]]
  /\ UNCHANGED <<reqs, store, workload, call>>

Next ==
  \/ \E r \in Requests :
       \/ Receive(r)
       \/ LLMReply(r)
       \/ DbInsert(r)
       \/ Respond(r)
  \/ GetReceipt

Spec == Init /\ [][Next]_vars

----------------------------------------------------------------------------
(* The two standardizers of services/enrichment, called on their own       *)

\* Endings put after a name
NameTails ==
  {<<>>, S_com, <<" ">> \o S_inc, <<" ">> \o S_inc \o <<".">>, <<" ">> \o S_llc,
   <<" ">> \o S_corp, <<" ">> \o S_corporation,
   <<" ">> \o S_inc \o S_com, <<" ">> \o S_corp \o S_com,
   S_com \o <<" ">> \o S_inc, <<" ">> \o S_inc \o <<" ">> \o S_llc,
   <<" ", " ">> \o S_store_1234}

\* White space put before a name
NamePads == {<<>>, <<" ", "\t">>}

BrandArgs ==
  {UNDEF, NULL, Str(<<>>), Str(S_blank), Str(S_Apple), Str(S_AppleComputer)}
  \cup { Str(pad \o base \o tail) :
           pad \in NamePads, base \in {S_amazon, S_microsoft, S_acme},
           tail \in NameTails }

MerchantArgs ==
  {UNDEF, NULL, Str(<<>>), Str(S_blank), Str(S_wal_mart),
   Str(S_target \o <<" ">> \o S_walmart),
   Str(S_Amazon \o <<" ">> \o S_fulfillment_center)}
  \cup { Str(pad \o base \o tail) :
           pad \in NamePads, base \in {S_walmart, S_target, S_amazon, S_costco},
           tail \in NameTails }

InitStandardizer ==
  /\ reqs = <<>>
  /\ store = <<>>
  /\ workload = "standardize"
  /\ lookup = NoLookup
  /\ call = NoCall

\* standardizeBrand(brand)
StandardizeBrandCall ==
  /\ \E brand \in BrandArgs :
       call' = [fn |-> "standardizeBrand", arg |-> brand,
                out |-> standardizeBrand(brand), again |-> UNDEF]
  /\ UNCHANGED <<reqs, store, workload, lookup>>

\* standardizeBrand applied to a value it returned
RestandardizeBrand ==
  /\ call.fn = "standardizeBrand" /\ call.again = UNDEF
  /\ call' = [call EXCEPT !.again = standardizeBrand(call.out)]
  /\ UNCHANGED <<reqs, store, workload, lookup>>

\* normalizeMerchantName(merchantName)
NormalizeMerchantCall ==
  /\ \E merchantName \in MerchantArgs :
       call' = [fn |-> "normalizeMerchantName", arg |-> merchantName,
                out |-> normalizeMerchantName(merchantName), again |-> UNDEF]
  /\ UNCHANGED <<reqs, store, workload, lookup>>

NextStandardizer ==
  \/ StandardizeBrandCall
  \/ RestandardizeBrand
  \/ NormalizeMerchantCall

SpecStandardizer == InitStandardizer /\ [][NextStandardizer]_vars

SpecMerge == InitMerge /\ [][Next]_vars

\* The concurrent requests with the awaits of the handler settling: the call
\* of generateLLMText is bounded by a timeout set around it, so it resolves
\* or rejects; the database answers the insert; the event loop resumes the
\* handler.  Requests arrive and are looked up at the clients' will.
Fairness ==
  \A r \in 1..NumRequests :
    WF_vars(LLMReply(r)) /\ WF_vars(DbInsert(r)) /\ WF_vars(Respond(r))

SpecLive == InitLive /\ [][Next]_vars /\ Fairness

----------------------------------------------------------------------------
(* Properties.  "Supplied" brand, category and description, and a request's *)
(* identifier, are the values the handler reads from the body.             *)

\* A value that is missing: absent, null or the empty string
Missing(v) == v \in {UNDEF, NULL, Str(<<>>)}

\* A category that is missing, an empty sequence or a blank string
CategoryEmpty(c) ==
  \/ Missing(c)
  \/ c = Arr(<<>>)
  \/ (IsStr(c) /\ \A i \in 1..Len(c.s) : c.s[i] \in {" ", "\t", "\n", "\r"})

\* The request passed validateRequest and the handler ran
Handled(q) == q.pc # "idle" /\ q.issues = <<>>

\* The row stored under the identifier of request q, NULL when there is none
RowOf(q) ==
  IF \E i \in 1..Len(store) : store[i].receiptId = q.insertData.receiptId
    THEN store[CHOOSE i \in 1..Len(store) : store[i].receiptId = q.insertData.receiptId]
    ELSE NULL

\* A JavaScript value as a column value: undefined is stored as NULL
Column(v) == IF v = UNDEF THEN NULL ELSE v

ReplyFails(reply) ==
  \/ reply.kind = "reject"
  \/ ~reply.json
  \/ ~EnrichmentSchema(reply.val)

InsertStep(r) == reqs[r].pc = "awaitInsert" /\ reqs'[r].pc = "insertDone"

\* The table holds a row with this identifier
Stored(table, id) == \E i \in 1..Len(table) : table[i].receiptId = id

\* C3: a request that passed validation and whose identifier is not stored
\* when its insert runs ends Persisted with status 201, whether enrichment
\* succeeded, failed or was skipped; no request fails because of enrichment.
C3_EnrichmentNeverFailsIngestion ==
  /\ [](\A r \in Requests :
          LET q == reqs[r] IN
          Handled(q) =>
            /\ q.error # "ENRICHMENT"
            /\ q.pc \in {"insertDone", "done"} => q.insertData # UNDEF
            /\ (q.pc = "done" /\ q.error = "") =>
                 (q.status = 201 /\ Stored(store, q.insertData.receiptId)))
  /\ [][\A r \in Requests :
          (/\ InsertStep(r)
           /\ IsStr(reqs[r].insertData.receiptId)
           /\ ~Stored(store, reqs[r].insertData.receiptId))
          => (/\ reqs'[r].error = ""
              /\ Stored(store', reqs[r].insertData.receiptId))]_vars

\* Reached: a request persisted with 201 after its enrichment call failed
C3_Witness ==
  \E r \in Requests :
    LET q == reqs[r] IN
    /\ q.pc = "done" /\ q.status = 201
    /\ q.reply = RejectReply
    /\ q.enrichmentResult.confidence = Str(S_low)
    /\ Stored(store, q.insertData.receiptId)

\* C4: the brand handed to the insert and persisted is the enriched brand
\* when enrichment ran and (the supplied brand is missing or the confidence
\* is high) and the enriched brand is not "unknown"; in every other case it
\* is the supplied, possibly missing, brand.
C4_BrandReconciliation ==
  \A r \in Requests :
    LET q == reqs[r]
        er == q.enrichmentResult
        adopt == /\ er # UNDEF
                 /\ (Missing(q.brand) \/ er.confidence = Str(S_high))
                 /\ er.brand # Str(S_unknown)
        expected == IF adopt THEN er.brand ELSE q.brand
    IN q.insertData # UNDEF =>
         /\ q.insertData.brand = expected
         /\ q.status = 201 => RowOf(q).brand = Column(expected)

\* Reached: supplied Apple, enriched Apple Computer at high confidence,
\* persisted Apple Computer
C4_Witness ==
  \E r \in Requests :
    LET q == reqs[r] IN
    /\ q.pc = "done" /\ q.status = 201
    /\ q.brand = Str(S_Apple)
    /\ q.enrichmentResult # UNDEF
    /\ q.enrichmentResult.brand = Str(S_AppleComputer)
    /\ q.enrichmentResult.confidence = Str(S_high)
    /\ RowOf(q).brand = Str(S_AppleComputer)

\* C5: the category handed to the insert and persisted is the enriched
\* category when enrichment ran and (the supplied category is missing or
\* empty, or the confidence is high) and the enriched category is non-empty
\* with a first element other than "unknown"; in every other case it is the
\* supplied (parsed) category.
C5_CategoryReconciliation ==
  \A r \in Requests :
    LET q == reqs[r]
        er == q.enrichmentResult
        adopt == /\ er # UNDEF
                 /\ (CategoryEmpty(q.productCategory) \/ er.confidence = Str(S_high))
                 /\ er.category.a # <<>>
                 /\ er.category.a[1] # Str(S_unknown)
        expected == IF adopt THEN er.category ELSE q.productCategory
    IN q.insertData # UNDEF =>
         /\ q.insertData.productCategory = expected
         /\ q.status = 201 => RowOf(q).productCategory = Column(expected)

\* Reached: a supplied category kept because the enriched one is ["unknown"]
\* at high confidence
C5_Witness ==
  \E r \in Requests :
    LET q == reqs[r] IN
    /\ q.pc = "done" /\ q.status = 201
    /\ q.productCategory = Arr(<<Str(S_A), Str(S_B)>>)
    /\ q.enrichmentResult # UNDEF
    /\ q.enrichmentResult.category = Arr(<<Str(S_unknown)>>)
    /\ q.enrichmentResult.confidence = Str(S_high)
    /\ RowOf(q).productCategory = Arr(<<Str(S_A), Str(S_B)>>)

Inserted(id) ==
  { r \in Requests :
      /\ reqs[r].pc \in {"insertDone", "done"}
      /\ reqs[r].insertData # UNDEF
      /\ reqs[r].insertData.receiptId = id }

\* C7: of the concurrent requests for one identifier exactly one is persisted
\* (201) and every other one is rejected as a duplicate (23505, 409), under
\* every interleaving; the table never holds two rows for one identifier.
C7_ExactlyOnePersisted ==
  /\ \A i, j \in 1..Len(store) :
       i # j => store[i].receiptId # store[j].receiptId
  /\ \A id \in {Str(S_R1), Str(S_R2)} :
       Inserted(id) # {} =>
         /\ Cardinality({ r \in Inserted(id) : reqs[r].error = "" }) = 1
         /\ \A r \in Inserted(id) :
              /\ reqs[r].error \in {"", "23505"}
              /\ reqs[r].pc = "done" =>
                   reqs[r].status = (IF reqs[r].error = "" THEN 201 ELSE 409)

\* Reached: two requests for one identifier, both enriched, both answered
C7_Witness ==
  \E r, w \in Requests :
    /\ r # w
    /\ reqs[r].insertData # UNDEF /\ reqs[w].insertData # UNDEF
    /\ reqs[r].insertData.receiptId = reqs[w].insertData.receiptId
    /\ reqs[r].pc = "done" /\ reqs[w].pc = "done"
    /\ reqs[r].status = 201 /\ reqs[w].status = 409
    /\ Len(store) = 1

\* C8: a validated request is processed with the identifier and the field
\* values of the same request written with all-lowercase keys, whatever the
\* casing of its keys.
C8_KeyCasingIrrelevant ==
  \A r \in Requests :
    LET q == reqs[r]
        lower == caseInsensitiveField(q.body)
    IN Handled(q) =>
         /\ q.productDescription =
              Read(lower, "product_description", "PRODUCT_DESCRIPTION")
         /\ q.brand = Read(lower, "brand", "BRAND")
         /\ q.productCategory =
              ParsedCategory(Read(lower, "product_category", "PRODUCT_CATEGORY"))
         /\ q.insertData # UNDEF =>
              q.insertData.receiptId = Read(lower, "receipt_id", "RECEIPT_ID")

\* C9: for a request without a supplied brand and an enrichment result whose
\* brand is "unknown" (a response at any confidence, or the fallback), the
\* brand handed to the insert and persisted stays missing, never "unknown".
C9_UnknownBrandNeverPersisted ==
  \A r \in Requests :
    LET q == reqs[r] IN
    (/\ q.insertData # UNDEF
     /\ q.enrichmentResult # UNDEF
     /\ Missing(q.brand)
     /\ q.enrichmentResult.brand = Str(S_unknown))
    => /\ q.insertData.brand = q.brand
       /\ Missing(q.insertData.brand)
       /\ q.status = 201 => Missing(RowOf(q).brand)

\* Reached: no brand supplied, the model answered "unknown" at high
\* confidence, the row was persisted
C9_Witness ==
  \E r \in Requests :
    LET q == reqs[r] IN
    /\ q.pc = "done" /\ q.status = 201
    /\ q.brand = UNDEF
    /\ q.reply # UNDEF /\ q.reply.kind = "text" /\ q.reply.json
    /\ q.enrichmentResult.brand = Str(S_unknown)
    /\ q.enrichmentResult.confidence = Str(S_high)
    /\ RowOf(q).brand = NULL

\* C10: enriched_brand is standardizeBrand of the enrichment result's brand
\* when enrichment ran and standardizeBrand of the supplied brand when it did
\* not, whichever brand the reconciliation chose.
C10_EnrichedBrandStandardized ==
  \A r \in Requests :
    LET q == reqs[r]
        expected == IF q.enrichmentResult # UNDEF
                      THEN standardizeBrand(q.enrichmentResult.brand)
                      ELSE standardizeBrand(q.brand)
    IN q.insertData # UNDEF =>
         /\ q.insertData.enrichedBrand = expected
         /\ q.status = 201 => RowOf(q).enrichedBrand = expected

\* Reached: the reconciliation kept the supplied brand (medium confidence)
\* while enriched_brand holds the enriched one
C10_Witness ==
  \E r \in Requests :
    LET q == reqs[r] IN
    /\ q.pc = "done" /\ q.status = 201
    /\ q.brand = Str(S_Apple)
    /\ q.enrichmentResult # UNDEF
    /\ q.enrichmentResult.brand = Str(S_AppleComputer)
    /\ q.enrichmentResult.confidence = Str(S_medium)
    /\ RowOf(q).brand = Str(S_Apple)
    /\ RowOf(q).enrichedBrand = Str(S_AppleComputer)

\* The EnrichmentResult that belongs to request q: the validated response to
\* its own call, or the degraded result built from its own brand
OwnResult(q) ==
  IF ReplyFails(q.reply)
    THEN [t |-> "object",
          brand |-> IF Missing(q.brand) THEN Str(S_unknown) ELSE q.brand,
          category |-> Arr(<<Str(S_unknown)>>),
          upc |-> NULL, size |-> NULL, color |-> NULL,
          material |-> NULL, model |-> NULL, weight |-> NULL,
          confidence |-> Str(S_low)]
    ELSE q.reply.val

\* C11: whenever enrichment was attempted for a persisted request (failed and
\* low-confidence attempts included), the row's enriched_brand,
\* enriched_category and enrichment_confidence are non-null and are those of
\* the request's own EnrichmentResult (the brand standardized), whatever the
\* other requests received.
C11_EnrichedFieldsPopulated ==
  \A r \in Requests :
    LET q == reqs[r] IN
    (q.enrichCalls > 0 /\ q.status = 201) =>
      /\ q.enrichmentResult = OwnResult(q)
      /\ RowOf(q).enrichedBrand # NULL
      /\ RowOf(q).enrichedBrand = standardizeBrand(OwnResult(q).brand)
      /\ RowOf(q).enrichedCategory # NULL
      /\ RowOf(q).enrichedCategory = OwnResult(q).category
      /\ RowOf(q).enrichmentConfidence # NULL
      /\ RowOf(q).enrichmentConfidence = OwnResult(q).confidence

\* Reached: two persisted requests, one whose call failed and one answered at
\* high confidence, each row holding its own request's values
C11_Witness ==
  \E r, w \in Requests :
    /\ r # w
    /\ reqs[r].status = 201 /\ reqs[w].status = 201
    /\ reqs[r].enrichCalls = 1 /\ reqs[w].enrichCalls = 1
    /\ ReplyFails(reqs[r].reply)
    /\ reqs[w].enrichmentResult.confidence = Str(S_high)
    /\ RowOf(reqs[r]).enrichmentConfidence = Str(S_low)
    /\ RowOf(reqs[w]).enrichmentConfidence = Str(S_high)
    /\ RowOf(reqs[r]).enrichedBrand # RowOf(reqs[w]).enrichedBrand

C12_FallbackPersistsSentinels ==
  \A r \in Requests :
    LET q == reqs[r] IN
    (/\ q.pc = "done" /\ q.status = 201
     /\ q.reply # UNDEF /\ ReplyFails(q.reply)
     /\ Missing(q.brand)) =>
      LET row == RowOf(q) IN
      /\ row.enrichedBrand = Str(S_unknown)
      /\ row.enrichedBrand = q.resEnrichment.brand
      /\ row.enrichedCategory = Arr(<<Str(S_unknown)>>)
      /\ row.enrichedUpc = NULL /\ row.enrichedSize = NULL
      /\ row.enrichedColor = NULL /\ row.enrichedMaterial = NULL
      /\ row.enrichedModel = NULL /\ row.enrichedWeight = NULL
      /\ row.enrichmentConfidence = Str(S_low)

\* The column of the table that holds a detail field of the EnrichmentResult
EnrichedColumn(f) ==
  CASE f = "upc" -> "enrichedUpc"
    [] f = "size" -> "enrichedSize"
    [] f = "color" -> "enrichedColor"
    [] f = "material" -> "enrichedMaterial"
    [] f = "model" -> "enrichedModel"
    [] f = "weight" -> "enrichedWeight"

\* C13: for each of upc, size, color, material, model and weight, the
\* persisted column equals the value of the EnrichmentResult exactly as
\* returned, every string value included, and it is null exactly when that
\* value is null or absent or enrichment did not run.
C13_DetailsStoredAsIs ==
  \A r \in Requests :
    LET q == reqs[r] IN
    (q.pc = "done" /\ q.status = 201) =>
      \A f \in DetailFields :
        LET stored == RowOf(q)[EnrichedColumn(f)] IN
        IF q.enrichmentResult = UNDEF
          THEN stored = NULL
          ELSE /\ stored = Column(q.enrichmentResult[f])
               /\ (stored = NULL) <=> (q.enrichmentResult[f] \in {NULL, UNDEF})

\* The value a body carries for the field with index i of LowerKeys, under
\* whichever casing of the key; undefined when the body has no such key
Supplied(body, i) ==
  IF \E j \in 1..Len(body) : body[j].k \in {LowerKeys[i], UpperKeys[i], MixedKeys[i]}
    THEN body[CHOOSE j \in 1..Len(body) :
                body[j].k \in {LowerKeys[i], UpperKeys[i], MixedKeys[i]}].v
    ELSE UNDEF

\* Provided values that are no URL, and provided values that are no ISO-8601
\* timestamp
NotUrls == {Str(<<>>), Str(S_not_a_url), Num(7)}
NotTimestamps == {Str(<<>>), Str(S_yesterday), Num(7)}

\* InputError: the identifier is missing or empty, the image URL is provided
\* and no URL, or the timestamp is provided and not ISO-8601
InputError(body) ==
  \/ Supplied(body, 1) \in {UNDEF, NULL, Str(<<>>)}
  \/ Supplied(body, 6) \in NotUrls
  \/ Supplied(body, 7) \in NotTimestamps

\* C15: a request whose body has an InputError is answered by validateRequest
\* with 400 and per-field details, and never reaches the handler: no
\* enrichment call is made, no record is built and nothing is persisted.
C15_InputErrorRejected ==
  \A r \in Requests :
    LET q == reqs[r] IN
    (q.pc # "idle" /\ InputError(q.body)) =>
      /\ q.pc = "done" /\ q.status = 400
      /\ q.issues # <<>>
      /\ q.enrichCalls = 0 /\ q.reply = UNDEF /\ q.enrichmentResult = UNDEF
      /\ q.insertData = UNDEF
      /\ store = <<>>

\* Reached: a request with an identifier and a description that calls for
\* enrichment, rejected for its image URL alone
C15_Witness ==
  \E r \in Requests :
    LET q == reqs[r] IN
    /\ q.pc = "done" /\ q.status = 400
    /\ Supplied(q.body, 1) = Str(S_R1)
    /\ Supplied(q.body, 2) = Str(S_iPhone)
    /\ Supplied(q.body, 3) = UNDEF
    /\ Supplied(q.body, 6) = Str(S_not_a_url)
    /\ Supplied(q.body, 7) = UNDEF
    /\ q.enrichCalls = 0

\* The fields of a body (indices of LowerKeys) whose value is invalid: the
\* identifier missing, empty or no string; the description or the brand
\* neither a string nor null; the price neither a string, a number nor null;
\* the image URL no URL; the timestamp no ISO-8601 timestamp
InvalidFields(body) ==
  { i \in FieldIx :
      LET v == Supplied(body, i) IN
      \/ i = 1 /\ (v \in {UNDEF, NULL, Str(<<>>)} \/ ~IsStr(v))
      \/ i \in {2, 3} /\ v.t \notin {"undefined", "null", "string"}
      \/ i = 5 /\ v.t \notin {"undefined", "null", "string", "number"}
      \/ i = 6 /\ v \in NotUrls
      \/ i = 7 /\ v \in NotTimestamps }

\* C16: the 400 response of validateRequest has a details entry for every
\* invalid field of the body, not only for the first one found.
C16_EveryInvalidFieldListed ==
  \A r \in Requests :
    LET q == reqs[r] IN
    (q.pc # "idle" /\ InvalidFields(q.body) # {}) =>
      /\ q.status = 400
      /\ \A i \in InvalidFields(q.body) :
           \E k \in 1..Len(q.issues) : q.issues[k].field = LowerKeys[i]

\* Supplied prices that fail numeric conversion
NotNumbers == {Str(S_not_a_number), Str(<<>>), Str(S_blank)}

\* C17: price coercion.  A numeric total price and the numeric string of the
\* same number are persisted as the same number, and every supplied price
\* that fails numeric conversion ("not-a-number", the empty string) is
\* persisted as null, never as 0 or NaN, and raises no error.
C17_PriceCoercion ==
  \A r \in Requests :
    LET q == reqs[r]
        price == Supplied(q.body, 5)
    IN /\ (q.pc = "done" /\ q.status = 201) =>
            /\ price \in {Num(9999), Str(S_99_99)} =>
                 RowOf(q).totalPricePaid = Num(9999)
            /\ price \in {Num(0), Str(S_zero)} =>
                 RowOf(q).totalPricePaid = Num(0)
            /\ price \in NotNumbers => RowOf(q).totalPricePaid = NULL
       /\ (Handled(q) /\ price \in NotNumbers) =>
            q.status # 500

\* The category the claim has the ingestion path use: a string that after
\* trimming starts with "[" is parsed as JSON, and kept as it is when the
\* parse fails
TrimmedParse(raw) ==
  IF IsStr(raw) /\ startsWith(trim(raw.s), <<"[">>)
    THEN LET parsed == JSONparse(trim(raw.s)) IN
         IF parsed.ok THEN parsed.val ELSE raw
    ELSE raw

\* C18: in POST /receipt a category that is a string which after trimming
\* starts with "[" is parsed as JSON, and the parsed sequence is what the
\* enrichment decision uses and what is persisted; when the parse fails the
\* string is kept unchanged and no error is raised.
C18_CategoryParsedAfterTrim ==
  \A r \in Requests :
    LET q == reqs[r]
        raw == Read(q.body, "product_category", "PRODUCT_CATEGORY")
        category == TrimmedParse(raw)
    IN Handled(q) =>
         /\ q.productCategory = category
         /\ (q.enrichCalls = 1) <=>
              /\ ~Missing(q.productDescription)
              /\ q.forceEnrichment \/ Missing(q.brand) \/ CategoryEmpty(category)
         /\ (q.pc = "done" /\ q.status = 201 /\ q.enrichmentResult = UNDEF) =>
              RowOf(q).productCategory = Column(category)
         /\ q.status # 500

\* The degraded result for request q
FallbackOf(q) ==
  [t |-> "object",
   brand |-> IF Missing(q.brand) THEN Str(S_unknown) ELSE q.brand,
   category |-> Arr(<<Str(S_unknown)>>),
   upc |-> NULL, size |-> NULL, color |-> NULL,
   material |-> NULL, model |-> NULL, weight |-> NULL,
   confidence |-> Str(S_low)]

\* A parsed response fails the shape: brand not a string, category not a
\* sequence of at least minLen strings, a detail field neither string nor
\* null, or confidence outside {high, medium, low}
ShapeFails(v, minLen) ==
  \/ v.t # "object"
  \/ /\ v.t = "object"
     /\ \/ ~IsStr(v.brand)
        \/ ~IsArr(v.category)
        \/ IsArr(v.category) /\ Len(v.category.a) < minLen
        \/ IsArr(v.category) /\ \E i \in 1..Len(v.category.a) : ~IsStr(v.category.a[i])
        \/ \E f \in DetailFields : v[f].t \notin {"string", "null"}
        \/ ~IsStr(v.confidence)
        \/ IsStr(v.confidence) /\ v.confidence.s \notin {S_high, S_medium, S_low}

PersistedFor(r, id) ==
  /\ reqs[r].pc \in {"insertDone", "done"}
  /\ reqs[r].error = ""
  /\ reqs[r].insertData # UNDEF
  /\ reqs[r].insertData.receiptId = id

\* C20: GET /receipt/:receipt_id for X answers 200 with the record persisted
\* for X if and only if an earlier POST /receipt for X ended Persisted, and
\* 404 otherwise; the record returned is the one that request created, and no
\* later request changes or removes it: rows are only ever added.
C20_ReadReturnsPersistedRecord ==
  /\ [][ UNCHANGED <<reqs, store>> =>
           IF \E r \in Requests : PersistedFor(r, lookup'.receipt_id)
             THEN /\ lookup'.status = 200
                  /\ \E r \in Requests :
                       /\ PersistedFor(r, lookup'.receipt_id)
                       /\ lookup'.body = ToRow(reqs[r].insertData)
             ELSE lookup'.status = 404 /\ lookup'.body = NULL ]_vars
  /\ [][ /\ Len(store') >= Len(store)
         /\ \A i \in 1..Len(store) : store'[i] = store[i] ]_vars
  /\ [](lookup.status = 200 =>
          \E i \in 1..Len(store) :
            store[i].receiptId = lookup.receipt_id /\ store[i] = lookup.body)

\* Reached: the record of R1 read back after a second request for R1, with
\* other content, was rejected as a duplicate
C20_Witness ==
  /\ lookup.status = 200 /\ lookup.receipt_id = Str(S_R1)
  /\ \E w, r \in Requests :
       /\ PersistedFor(w, Str(S_R1)) /\ reqs[w].status = 201
       /\ reqs[r].pc = "done" /\ reqs[r].status = 409
       /\ reqs[r].insertData.receiptId = Str(S_R1)
       /\ reqs[r].insertData # reqs[w].insertData
       /\ lookup.body = ToRow(reqs[w].insertData)

\* The identifier the handler reads from the body of request q
IdOf(q) == Read(q.body, "receipt_id", "RECEIPT_ID")

\* No other received request carries the identifier of request r
DistinctId(r) ==
  /\ IsStr(IdOf(reqs[r]))
  /\ \A o \in Requests \ {r} :
       reqs[o].pc # "idle" => IdOf(reqs[o]) # IdOf(reqs[r])

\* The record request q builds when it runs alone: the handler applied to
\* its own body, flag and the answer to its own enrichment call
AloneRecord(q) ==
  LET brand == Read(q.body, "brand", "BRAND")
      productDescription ==
        Read(q.body, "product_description", "PRODUCT_DESCRIPTION")
      productCategory ==
        ParsedCategory(Read(q.body, "product_category", "PRODUCT_CATEGORY"))
  IN IF needsEnrichment(productDescription, q.forceEnrichment, brand, productCategory)
       THEN insertData(q.body, brand, productCategory,
                       enrichReceiptData(brand, q.reply).val)
       ELSE insertData(q.body, brand, productCategory, UNDEF)

\* C21: a request whose identifier no other request carries has, under every
\* interleaving with the other requests, the outcome it has alone: it is
\* persisted with 201, its row is the record built from its own body, flag
\* and enrichment answer, and a later read of its identifier returns that row.
C21_DistinctRequestsIndependent ==
  /\ [](\A r \in Requests :
          LET q == reqs[r] IN
          (Handled(q) /\ DistinctId(r)) =>
            /\ q.error = ""
            /\ q.insertData # UNDEF => q.insertData = AloneRecord(q)
            /\ q.pc \in {"insertDone", "done"} => RowOf(q) = ToRow(q.insertData)
            /\ q.pc = "done" => q.status = 201)
  /\ [][ \A r \in Requests :
           (/\ UNCHANGED <<reqs, store>>
            /\ reqs[r].pc = "done" /\ DistinctId(r)
            /\ lookup'.receipt_id = IdOf(reqs[r])) =>
             lookup'.status = 200 /\ lookup'.body = ToRow(reqs[r].insertData) ]_vars

\* Reached: two requests with different identifiers and different enrichment
\* answers, both persisted, the second one read back
C21_Witness ==
  \E r, o \in Requests :
    /\ reqs[r].pc = "done" /\ reqs[r].status = 201 /\ IdOf(reqs[r]) = Str(S_R1)
    /\ reqs[o].pc = "done" /\ reqs[o].status = 201 /\ IdOf(reqs[o]) = Str(S_R2)
    /\ reqs[r].enrichCalls = 1 /\ reqs[o].enrichCalls = 1
    /\ reqs[r].reply # reqs[o].reply
    /\ Len(store) = 2
    /\ lookup.status = 200 /\ lookup.receipt_id = Str(S_R2)
    /\ lookup.body = ToRow(reqs[o].insertData)

\* The names used as brands and the same names capitalised
BrandNames == {S_amazon, S_microsoft, S_acme}
Capitalised(name) == <<ToUpperChar(Head(name))>> \o Tail(name)

\* The corporate suffixes
CorporateSuffixes ==
  {S_inc, S_inc \o <<".">>, S_llc, S_llc \o <<".">>, S_corp, S_corp \o <<".">>,
   S_corporation}

\* s without the ending p, s itself when it does not end with p
WithoutEnding(s, p) ==
  IF Len(s) >= Len(p) /\ \A i \in 1..Len(p) : s[Len(s) - Len(p) + i] = p[i]
    THEN [i \in 1..(Len(s) - Len(p)) |-> s[i]]
    ELSE s

\* s without its trailing corporate suffix, if it has one
WithoutCorporateSuffix(s) ==
  IF \E w \in CorporateSuffixes : WithoutEnding(s, w) # s
    THEN WithoutEnding(s, CHOOSE w \in CorporateSuffixes : WithoutEnding(s, w) # s)
    ELSE s

\* The name is a key of the alias table of standardizeBrand
IsBrandAlias(name) == \E m \in brandMappings : m[1] = name

\* C22: for a brand that matches no alias standardizeBrand removes a trailing
\* ".com" first and only then a trailing corporate suffix from what remains:
\* "<name> inc.com" and "<name> corp.com" give the capitalised name, while
\* "<name>.com inc" gives the capitalised name followed by ".com".
C22_DotComThenSuffix ==
  call.fn = "standardizeBrand" =>
    /\ \A name \in BrandNames, pad \in NamePads :
         /\ call.arg = Str(pad \o name \o <<" ">> \o S_inc \o S_com) =>
              call.out = Str(Capitalised(name))
         /\ call.arg = Str(pad \o name \o <<" ">> \o S_corp \o S_com) =>
              call.out = Str(Capitalised(name))
         /\ call.arg = Str(pad \o name \o S_com \o <<" ">> \o S_inc) =>
              call.out = Str(Capitalised(name) \o S_com)
    /\ (IsStr(call.arg) /\ trim(call.arg.s) # <<>>
        /\ ~IsBrandAlias(toLowerCase(trim(call.arg.s)))) =>
         call.out =
           Str(TitleCaseWords(trim(CollapseSpaces(
             WithoutCorporateSuffix(
               WithoutEnding(toLowerCase(trim(call.arg.s)), S_com))))))

\* Reached: "amazon.com inc" standardized to "Amazon.com"
C22_Witness ==
  /\ call.fn = "standardizeBrand"
  /\ call.arg = Str(S_amazon \o S_com \o <<" ">> \o S_inc)
  /\ call.out = Str(S_Amazon \o S_com)

NoMerchantAlias(name) ==
  \A i \in 1..Len(merchantMappings) :
    LET key == merchantMappings[i][1] IN
    \A j \in 1..Len(name) : \A k \in j..Len(name) :
      [x \in 1..(k - j + 1) |-> name[j + x - 1]] # key

\* C24: for a merchant name that matches no alias, neither exactly nor by
\* containment, normalizeMerchantName applies the generic standardization: a
\* trailing ".com" and a trailing corporate suffix are stripped, white space
\* is collapsed and each token is title-cased.
C24_MerchantGenericFallback ==
  (/\ call.fn = "normalizeMerchantName"
   /\ IsStr(call.arg) /\ trim(call.arg.s) # <<>>
   /\ NoMerchantAlias(toLowerCase(trim(call.arg.s)))) =>
     call.out =
       Str(TitleCaseWords(trim(CollapseSpaces(
         WithoutCorporateSuffix(
           WithoutEnding(toLowerCase(trim(call.arg.s)), S_com))))))

\* The edges of the request state machine, as positions of the handler:
\* "idle" is Received; "awaitLLM" is EnrichmentInvoked; "awaitInsert" is
\* Reconciled (after EnrichmentSkipped, EnrichmentSucceeded or Degraded);
\* "insertDone" is PersistenceAttempted; "done" is Persisted or Rejected
StateEdges ==
  {<<"idle", "awaitLLM">>, <<"idle", "awaitInsert">>, <<"idle", "done">>,
   <<"awaitLLM", "awaitInsert">>, <<"awaitInsert", "insertDone">>,
   <<"insertDone", "done">>}

\* C25: every request moves only along the edges of the state machine; the
\* enrichment call is made at most once and before the persistence attempt,
\* the insert is attempted at most once (no retry), and a request that ended
\* Persisted or Rejected changes no more.
C25_StateMachine ==
  /\ [][ \A r \in Requests :
           LET q == reqs[r]
               n == reqs'[r]
           IN /\ n.pc # q.pc => <<q.pc, n.pc>> \in StateEdges
              /\ <<q.pc, n.pc>> = <<"idle", "done">> => n.status = 400 /\ n.issues # <<>>
              /\ n.enrichCalls # q.enrichCalls =>
                   /\ q.enrichCalls = 0 /\ n.enrichCalls = 1
                   /\ q.pc = "idle" /\ n.pc = "awaitLLM"
              /\ n.reply # q.reply <=> <<q.pc, n.pc>> = <<"awaitLLM", "awaitInsert">>
              /\ store' # store /\ n # q =>
                   /\ <<q.pc, n.pc>> = <<"awaitInsert", "insertDone">>
                   /\ Len(store') = Len(store) + 1
              /\ q.pc = "done" => n = q ]_vars
  /\ [](\A r \in Requests :
          LET q == reqs[r] IN
          /\ q.enrichCalls \in {0, 1}
          /\ q.pc = "awaitLLM" => q.enrichCalls = 1 /\ q.insertData = UNDEF
          /\ q.pc = "done" => q.status \in {201, 409, 400})

\* Reached: a request that went through EnrichmentInvoked, EnrichmentFailed
\* and Degraded and ended Rejected as a duplicate
C25_Witness ==
  \E r \in Requests :
    LET q == reqs[r] IN
    /\ q.pc = "done" /\ q.status = 409
    /\ q.enrichCalls = 1 /\ q.reply = RejectReply
    /\ q.enrichmentResult = FallbackOf(q)
    /\ q.error = "23505"

\* C26: for every request that passes validateRequest, whatever the casing
\* of its keys, the identifier handed to the insert is a non-empty string and
\* the image URL handed to it is absent, null or a URL that passed validation.
C26_PersistedValuesValidated ==
  \A r \in Requests :
    LET q == reqs[r] IN
    (Handled(q) /\ q.insertData # UNDEF) =>
      /\ IsStr(q.insertData.receiptId)
      /\ Len(q.insertData.receiptId.s) >= 1
      /\ q.insertData.productImageUrl \in {UNDEF, NULL, Str(S_url)}

\* C27: the 201 response is sent only after the record was inserted; when
\* the insert fails no 201 is sent, the error reaches errorHandler, which
\* sends the status for it, and each request gets one response only.
C27_SuccessOnlyAfterInsert ==
  /\ [][ \A r \in Requests :
           LET q == reqs[r]
               n == reqs'[r]
           IN /\ (q.status # 201 /\ n.status = 201) =>
                   /\ q.pc = "insertDone" /\ q.error = ""
                   /\ store' = store
                   /\ \E i \in 1..Len(store) : store[i] = ToRow(q.insertData)
              /\ q.status # 0 => n.status = q.status /\ n.resEnrichment = q.resEnrichment
              /\ n.status # q.status => n.pc = "done" ]_vars
  /\ [](\A r \in Requests :
          LET q == reqs[r] IN
          /\ (q.pc = "done" /\ q.error = "23505") => q.status = 409
          /\ (q.pc = "done" /\ q.error = "23502") => q.status = 400
          /\ q.error # "" =>
               /\ q.status # 201
               /\ q.resEnrichment = UNDEF
               /\ q.error \in {"23505", "23502"})

\* Reached: a request whose insert failed on the missing identifier, answered
\* 400 by errorHandler, nothing stored
C27_Witness ==
  \E r \in Requests :
    LET q == reqs[r] IN
    /\ q.pc = "done" /\ q.error = "23502" /\ q.status = 400
    /\ q.insertData # UNDEF /\ ~IsStr(q.insertData.receiptId)
    /\ store = <<>>

\* C28: when enrichment was invoked and fell back to the degraded result,
\* reconciliation changes no caller-supplied field: the persisted brand and
\* product_category are the brand and the (parsed) category of the request,
\* a missing one stays missing, also when forceEnrichment is true.
C28_FallbackChangesNothing ==
  \A r \in Requests :
    LET q == reqs[r] IN
    (q.reply # UNDEF /\ ReplyFails(q.reply)) =>
      /\ q.insertData.brand = Read(q.body, "brand", "BRAND")
      /\ q.insertData.productCategory = q.productCategory
      /\ Missing(q.brand) => Missing(q.insertData.brand)
      /\ CategoryEmpty(q.productCategory) => CategoryEmpty(q.insertData.productCategory)
      /\ (q.pc = "done" /\ q.status = 201) =>
           /\ RowOf(q).brand = Column(q.brand)
           /\ RowOf(q).productCategory = Column(q.productCategory)

\* Reached: a forced enrichment that failed for a request without category,
\* persisted with its brand and still without category
C28_Witness ==
  \E r \in Requests :
    LET q == reqs[r] IN
    /\ q.pc = "done" /\ q.status = 201
    /\ q.forceEnrichment /\ q.reply = NotJsonReply
    /\ q.brand = Str(S_Apple) /\ q.productCategory = UNDEF
    /\ RowOf(q).brand = Str(S_Apple) /\ RowOf(q).productCategory = NULL

\* C29: when the request supplies no total price (the key absent, null or
\* the empty string) the handler persists the price 0, not null, which is
\* also what it persists for a supplied price of zero.
C29_MissingPriceIsZero ==
  \A r \in Requests :
    LET q == reqs[r]
        price == Supplied(q.body, 5)
    IN /\ (Handled(q) /\ q.insertData # UNDEF) =>
            /\ price \in {UNDEF, NULL, Str(<<>>)} => q.insertData.totalPricePaid = Num(0)
            /\ price \in {Num(0), Str(S_zero)} => q.insertData.totalPricePaid = Num(0)
       /\ (q.pc = "done" /\ q.status = 201 /\ price \in {UNDEF, NULL, Str(<<>>)}) =>
            RowOf(q).totalPricePaid = Num(0)

\* Reached: a request with total_price_paid null persisted with price 0
C29_Witness ==
  \E r \in Requests :
    LET q == reqs[r] IN
    /\ q.pc = "done" /\ q.status = 201
    /\ \E i \in 1..Len(q.body) : q.body[i].k = "total_price_paid" /\ q.body[i].v = NULL
    /\ RowOf(q).totalPricePaid = Num(0)

EndsStrippable(v) ==
  /\ IsStr(v)
  /\ \/ WithoutEnding(toLowerCase(v.s), S_com) # toLowerCase(v.s)
     \/ WithoutCorporateSuffix(toLowerCase(v.s)) # toLowerCase(v.s)

====
